---- MODULE Spec2Model ----
(***************************************************************************)
(* Model of the hybrid retrieval engine of abbccc_hackathon:               *)
(*   - KeywordSearchIndex (source/index/keyword_index.py): the two-level   *)
(*     project -> activity -> keyword-set index, its pruning and search;   *)
(*   - fuzzy_nn_match (source/utils/string_matching.py): the title matcher *)
(*     as search uses it (n_neighbors = 5, limit = 1);                     *)
(*   - FaissIndex (source/index/vector_index.py): the store of vectors    *)
(*     with its list of labels, its searches, save and from_file;          *)
(*   - save and from_file of KeywordSearchIndex, on JSON values;           *)
(*   - Pipeline.run (source/pipeline.py): the two loads and the per-event  *)
(*     fusion loop.                                                        *)
(*                                                                         *)
(* Python dicts keep insertion order, and the order is observable (row     *)
(* order of the tables), so a dict is a record [keys, vals]: keys is the   *)
(* sequence of keys in insertion order, vals the mapping.                  *)
(*                                                                         *)
(* Scores.  A title confidence is a float WRatio / 100; it is kept as an   *)
(* integer number of millionths, and so is every score.  Sums and         *)
(* quotients are exact rationals; round(x, 4) is the nearest multiple of   *)
(* 100 millionths (ties to even).                                          *)
(***************************************************************************)
EXTENDS Integers, Sequences, FiniteSets, TLC

VARIABLES
    index,          \* KeywordSearchIndex.index: project -> activity -> set of keywords
    n_docs,         \* number of add_core_document calls made so far
    WRatio,         \* rapidfuzz's fuzz.WRatio on (title, project name), fixed for a run
    lastOp,         \* the last call made on the index, with its arguments
    repeated,       \* the last call had the same arguments as the call before it
    pre_index,      \* the index as it was when the last call started
    status,         \* outcome of the last call: "ok" or the exception raised
    results,        \* the mapping returned by the last search
    raw_match,      \* fuzzy_nn_match's table in the last search (before filtering)
    project_match,  \* the same table after the >= 0.95 filter
    pc,             \* Pipeline.run: "start", "loop", "done" or "failed"
    context_index,  \* the FaissIndex: stored vectors and index_items
    encoder,        \* encode_documents on a query document, fixed for a run
    events,         \* the list of event dicts that run enriches and returns
    done,           \* number of events the loop has processed
    error,          \* the exception that ended run, "" if none
    raised_in,      \* the call of the loop body that raised it
    search_results_df,  \* the keyword table of the event processed last
    context_result_df,  \* the vector table of that event
    result_df,          \* their join, with the match_confidence column
    loaded,         \* what run loaded: the two indexes and the list of events
    kw_file,        \* content of data/keyword_search_index.json
    vec_file,       \* content of data/faiss_ip.index and of its .json sidecar
    vec_out,        \* what the last search_by_vector_query returned
    start,          \* CalendarMeeting.start, as a day number (day 0 is a Monday)
    recurrence,     \* raw["recurrence"] of the meeting
    occ,            \* process_recurrence's list occ: weekday names, then dates
    instances,      \* CalendarMeeting.instances
    rec_pc,         \* process_recurrence: "start", "loop", "append", "done", "failed"
    rec_error,      \* the exception that ended process_recurrence, "" if none
    response,       \* the server's SearchResults: its list results
    responseString, \* what serialize returned, the body of the HTTP response
    received,       \* the list results of what deserialize returned
    rt_pc           \* the exchange: "build", "sent" or "received"

kwvars == <<index, n_docs, WRatio, lastOp, repeated, pre_index, status, results,
            raw_match, project_match>>

plvars == <<pc, context_index, encoder, events, done, error, raised_in,
            search_results_df, context_result_df, result_df, loaded>>

fvars == <<kw_file, vec_file, vec_out>>

rcvars == <<start, recurrence, occ, instances, rec_pc, rec_error>>

rtvars == <<response, responseString, received, rt_pc>>

auxvars == <<rcvars, rtvars>>

vars == <<kwvars, plvars, fvars, auxvars>>

----------------------------------------------------------------------------
(* Bounds of the model *)

\* add_core_document calls in one run
MaxDocs == 2
\* events in the event file of a pipeline run
MaxEvents == 2

(* Program constants *)

\* search keeps a title match when match_confidence >= 0.95 (in millionths)
MinConfidence == 950000
\* search passes n_neighbors = 5 to fuzzy_nn_match
NNeighbors == 5
\* search passes limit = 1 to fuzzy_nn_match
Limit == 1
\* search_by_vector_query's k when the caller passes none
DefaultK == 5
\* scores are integers in millionths; round(match_score, 4) keeps multiples
\* of Quantum millionths
Quantum == 10 * 10
Unit == Quantum * 10 * 10 * 10 * 10

----------------------------------------------------------------------------
(* The strings of the model *)

Projects == {"A&B", "AB", "Gasum"}
\* the timesheet rows (Project Description, Activity Description, Comment)
\* an index is built from; a comment is the list of its words
Documents ==
    {[project |-> "A&B", activity |-> "Eng", content |-> <<>>],
     [project |-> "AB", activity |-> "Eng", content |-> <<>>],
     [project |-> "AB", activity |-> "Eng", content |-> <<"the", "FAT">>],
     [project |-> "AB", activity |-> "Demo", content |-> <<>>],
     [project |-> "Gasum", activity |-> "Eng", content |-> <<"the", "FAT">>],
     [project |-> "Gasum", activity |-> "Demo", content |-> <<>>]}
\* thresholds passed to remove_frequent_keywords_from_index
Thresholds == {0, 1, 2}
\* event subjects; "" is the falsy title
Titles == {"", "AB plan"}
\* fuzz.WRatio / 100 values the matcher may produce, in millionths
Confidences == {949900, 950000, 952381}

\* str.lower() on the words that occur
lower(w) ==
    CASE w = "A" -> "a"
      [] w = "B" -> "b"
      [] w = "AB" -> "ab"
      [] w = "Gasum" -> "gasum"
      [] w = "Eng" -> "eng"
      [] w = "Demo" -> "demo"
      [] w = "FAT" -> "fat"
      [] w = "plan" -> "plan"
      [] OTHER -> w

\* re.findall(r"\b\w+\b", s) on the names that occur ("&" and " " separate words)
words(s) ==
    CASE s = "A&B" -> <<"A", "B">>
      [] s = "AB plan" -> <<"AB", "plan">>
      [] s = "" -> <<>>
      [] OTHER -> <<s>>

\* nltk's english/german/finnish/swedish stopwords, as far as they occur
stopwords == {"the"}

Keywords == {"ab", "gasum", "eng", "demo", "fat", "plan"}

----------------------------------------------------------------------------
(* Python dict, insertion ordered *)

EmptyDict == [keys |-> <<>>, vals |-> [k \in {} |-> 0]]

Has(d, k) == k \in DOMAIN d.vals

Get(d, k, default) == IF Has(d, k) THEN d.vals[k] ELSE default

Put(d, k, v) ==
    [keys |-> IF Has(d, k) THEN d.keys ELSE Append(d.keys, k),
     vals |-> [x \in (DOMAIN d.vals) \cup {k} |-> IF x = k THEN v ELSE d.vals[x]]]

\* d[p][a] = v on a defaultdict of dicts
SetCell(d, p, a, v) == Put(d, p, Put(Get(d, p, EmptyDict), a, v))

HasCell(d, p, a) == Has(d, p) /\ Has(d.vals[p], a)

Cell(d, p, a) == d.vals[p].vals[a]

RECURSIVE Flatten(_, _)
\* the (project, activity) pairs of the projects d.keys[i..], in iteration order
Flatten(d, i) ==
    IF i > Len(d.keys) THEN <<>>
    ELSE LET p == d.keys[i]
             acts == d.vals[p].keys
         IN  [j \in 1..Len(acts) |-> <<p, acts[j]>>] \o Flatten(d, i + 1)

\* for project, activities in d.items(): for activity, _ in activities.items()
items(d) == Flatten(d, 1)

CellSet(d) == {items(d)[i] : i \in 1..Len(items(d))}

----------------------------------------------------------------------------
(* KeywordSearchIndex *)

Range(s) == {s[i] : i \in 1..Len(s)}

\* _extract_keywords.  The words of the text are lowercased; stopwords and
\* words shorter than 2 characters are dropped.  With use_ml the candidates
\* come from spaCy's entities and KeyBERT's key phrases, which are external
\* models: they are taken to propose the words of the text, and the final
\* filter of the code is applied to them.
extract_keywords(text, use_ml) ==
    LET cand == {lower(w) : w \in Range(text)}
    IN  {k \in cand : k \notin stopwords /\ Len(k) >= 2}

\* f"{project_name} {activity_desc} {content}"
DocumentText(project_name, activity_desc, content) ==
    words(project_name) \o words(activity_desc) \o content

\* faulty variant: the symmetric difference instead of the union
add_core_document_toggle(ix, project_name, activity_desc, content) ==
    LET keywords == extract_keywords(
            DocumentText(project_name, activity_desc, content), TRUE)
        old == IF HasCell(ix, project_name, activity_desc)
               THEN Cell(ix, project_name, activity_desc) ELSE {}
    IN  SetCell(ix, project_name, activity_desc,
                (old \ keywords) \cup (keywords \ old))

\* self.index[project_name][activity_desc].update(keywords)
add_core_document(ix, project_name, activity_desc, content) ==
    LET keywords == extract_keywords(
            DocumentText(project_name, activity_desc, content), TRUE)
        old == IF HasCell(ix, project_name, activity_desc)
               THEN Cell(ix, project_name, activity_desc) ELSE {}
    IN  SetCell(ix, project_name, activity_desc, old \cup keywords)

\* keyword_counts[keyword]: the number of cells that contain the keyword
keyword_counts(ix, keyword) ==
    Cardinality({c \in CellSet(ix) : keyword \in Cell(ix, c[1], c[2])})

\* faulty variant: the most frequent keywords are removed as well
remove_frequent_and_top(ix, threshold) ==
    LET all == UNION {Cell(ix, c[1], c[2]) : c \in CellSet(ix)}
    IN  [keys |-> ix.keys,
         vals |-> [p \in DOMAIN ix.vals |->
            [keys |-> ix.vals[p].keys,
             vals |-> [a \in DOMAIN ix.vals[p].vals |->
                {k \in ix.vals[p].vals[a] :
                    /\ keyword_counts(ix, k) <= threshold
                    /\ \E o \in all :
                          keyword_counts(ix, o) > keyword_counts(ix, k)}]]]]

\* faulty variant: keeps a keyword only when its count is below the threshold
remove_frequent_strict(ix, threshold) ==
    [keys |-> ix.keys,
     vals |-> [p \in DOMAIN ix.vals |->
        [keys |-> ix.vals[p].keys,
         vals |-> [a \in DOMAIN ix.vals[p].vals |->
            {k \in ix.vals[p].vals[a] : keyword_counts(ix, k) < threshold}]]]]

\* every cell keeps the keywords whose count is <= threshold; keys are untouched
remove_frequent_keywords_from_index(ix, threshold) ==
    [keys |-> ix.keys,
     vals |-> [p \in DOMAIN ix.vals |->
        [keys |-> ix.vals[p].keys,
         vals |-> [a \in DOMAIN ix.vals[p].vals |->
            {k \in ix.vals[p].vals[a] : keyword_counts(ix, k) <= threshold}]]]]

\* process_query_document: _extract_keywords(title + " " + body, use_ml=False)
process_query_document(title, body) ==
    extract_keywords(words(title) \o body, FALSE)

----------------------------------------------------------------------------
(* fuzzy_nn_match, as search calls it: one messy string (the title), the
   project names as the clean strings, n_neighbors = 5, limit = 1 *)

\* preprocess_string on the strings that occur: "&" between one-letter words
\* is removed with the spaces around it, other special characters are
\* removed, whitespace is collapsed, the result is lowercased
preprocess_string(s) ==
    CASE s = "A&B" -> "ab"
      [] s = "AB" -> "ab"
      [] s = "Gasum" -> "gasum"
      [] s = "AB plan" -> "ab plan"
      [] OTHER -> s

Min(a, b) == IF a <= b THEN a ELSE b

\* original_to_preprocessed_clean[s]: a dict comprehension over zip(clean_, clean),
\* so the last project name that preprocesses to s wins
original_to_preprocessed_clean(clean, s) ==
    LET hits == {i \in 1..Len(clean) : preprocess_string(clean[i]) = s}
    IN  clean[CHOOSE i \in hits : \A j \in hits : j <= i]

\* tfidf_nn: the positions of the min(len(clean), n_neighbors) candidates that
\* NearestNeighbors returns for the title.  Which ones it returns when there
\* are more candidates than n_neighbors is decided by scikit-learn's TF-IDF
\* space: any subset of that size is possible.
tfidf_nn(clean, n_neighbors) ==
    {pool \in SUBSET (1..Len(clean)) :
        Cardinality(pool) = Min(Len(clean), n_neighbors)}

\* faulty variant: limit is ignored, the whole pool is returned
find_matches_fuzzy_unlimited(W, row, clean, pool, limit) ==
    LET n == Cardinality(pool)
        score(i) == W[<<row, preprocess_string(clean[i])>>]
    IN  {m \in [1..n -> pool] :
            /\ \A i, j \in 1..n : i < j => m[i] # m[j] /\ score(m[i]) >= score(m[j])
            /\ \A i \in 1..n : \A k \in pool \ Range(m) : score(m[i]) >= score(k)}

\* find_matches_fuzzy: process.extract(..., scorer=fuzz.WRatio, limit=limit),
\* the `limit` best candidates of the pool in non-increasing score order; the
\* order among equal scores is rapidfuzz's, any is possible.  W is WRatio / 100.
find_matches_fuzzy(W, row, clean, pool, limit) ==
    LET n == Min(limit, Cardinality(pool))
        score(i) == W[<<row, preprocess_string(clean[i])>>]
    IN  {m \in [1..n -> pool] :
            /\ \A i, j \in 1..n : i < j => m[i] # m[j] /\ score(m[i]) >= score(m[j])
            /\ \A i \in 1..n : \A k \in pool \ Range(m) : score(m[i]) >= score(k)}

\* the matching tables fuzzy_nn_match can return for one messy string
fuzzy_nn_match(W, messy, clean, n_neighbors, limit) ==
    LET row == preprocess_string(messy)
    IN  {[i \in 1..Len(m) |->
            [messy |-> messy,
             clean |-> original_to_preprocessed_clean(
                          clean, preprocess_string(clean[m[i]])),
             match_confidence |-> W[<<row, preprocess_string(clean[m[i]])>>]]] :
         m \in UNION {find_matches_fuzzy(W, row, clean, pool, limit) :
                        pool \in tfidf_nn(clean, n_neighbors)}}

----------------------------------------------------------------------------
(* KeywordSearchIndex.search *)

\* round(num / den, 4) for a rational number of millionths num / den >= 0
Round4(num, den) ==
    LET d == den * Quantum
        q == num \div d
        r == num % d
    IN  Quantum * (IF 2 * r < d THEN q
                   ELSE IF 2 * r > d THEN q + 1
                   ELSE IF q % 2 = 0 THEN q ELSE q + 1)

\* faulty variant: strict comparison with the threshold
FilterConfidentStrict(pm) ==
    SelectSeq(pm, LAMBDA r : r.match_confidence > MinConfidence)

\* project_match.loc[project_match["match_confidence"] >= 0.95, :]
FilterConfident(pm) ==
    SelectSeq(pm, LAMBDA r : r.match_confidence >= MinConfidence)

RECURSIVE AddPrior(_, _, _, _, _)
\* for activity, _ in self.index[project].items():
\*     results[project][activity] += project_match["match_confidence"].iloc[0]
AddPrior(ix, res, project, j, conf) ==
    IF j > Len(ix.vals[project].keys) THEN res
    ELSE LET activity == ix.vals[project].keys[j]
             old == IF HasCell(res, project, activity)
                    THEN Cell(res, project, activity) ELSE 0
         IN  AddPrior(ix, SetCell(res, project, activity, old + conf),
                      project, j + 1, conf)

RECURSIVE TitlePriors(_, _, _, _)
\* for project in project_match["clean"].tolist(): ...
\* (title_tagged_results is still empty inside the loop, so nothing is skipped;
\* sort_values keeps the table's order, which is already non-increasing)
TitlePriors(ix, res, pm, i) ==
    IF i > Len(pm) THEN res
    ELSE TitlePriors(ix, AddPrior(ix, res, pm[i].clean, 1, pm[1].match_confidence),
                     pm, i + 1)

RECURSIVE read_projects_messy(_, _, _)
\* faulty variant: the index is read at the title instead of the project
read_projects_messy(ix, pm, i) ==
    IF i > Len(pm) THEN ix
    ELSE read_projects_messy(
            IF Has(ix, pm[i].messy) THEN ix ELSE Put(ix, pm[i].messy, EmptyDict),
            pm, i + 1)

RECURSIVE read_projects(_, _, _)
\* the index after the reads self.index[project] of the title branch, for the
\* rows pm[i..] of the filtered table: self.index is a defaultdict, reading a
\* project that is not a key would create it, with no activity
read_projects(ix, pm, i) ==
    IF i > Len(pm) THEN ix
    ELSE read_projects(
            IF Has(ix, pm[i].clean) THEN ix ELSE Put(ix, pm[i].clean, EmptyDict),
            pm, i + 1)

\* faulty variant: the title prior multiplies the lexical term
MatchScoreNumProduct(prior, overlap, size) == prior * overlap

\* match_score = results[project][activity] + len(intersection) / len(keywords),
\* as the numerator of a fraction of millionths with denominator len(keywords)
MatchScoreNum(prior, overlap, size) == prior * size + Unit * overlap

\* match_score is computed from results[project][activity]: reading it creates
\* the entry (a defaultdict), with value 0.0 unless a prior was added; the
\* entry is overwritten with the rounded score only when match_score > 0.0
Emit(res, project, activity, num, den) ==
    LET read == IF HasCell(res, project, activity) THEN res
                ELSE SetCell(res, project, activity, 0)
    IN  IF num > 0 THEN SetCell(read, project, activity, Round4(num, den))
        ELSE read

RECURSIVE SearchLoop(_, _, _, _)
\* for project, activities in self.index.items():
\*     for activity, keywords in activities.items(): ...
\* len(keywords) = 0 raises ZeroDivisionError and search returns nothing
SearchLoop(ix, res, query_keywords, i) ==
    IF i > Len(items(ix)) THEN [status |-> "ok", results |-> res]
    ELSE LET project == items(ix)[i][1]
             activity == items(ix)[i][2]
             keywords == Cell(ix, project, activity)
             prior == IF HasCell(res, project, activity)
                      THEN Cell(res, project, activity) ELSE 0
             overlap == Cardinality(keywords \cap query_keywords)
             size == Cardinality(keywords)
         IN  IF size = 0
             THEN [status |-> "ZeroDivisionError", results |-> EmptyDict]
             ELSE SearchLoop(ix,
                     Emit(res, project, activity,
                          MatchScoreNum(prior, overlap, size), size),
                     query_keywords, i + 1)

\* search(query_keywords, title), given the table pm that fuzzy_nn_match returned
\* (<<>> when title is falsy and the matcher is not called)
search(ix, query_keywords, pm) ==
    SearchLoop(ix, TitlePriors(ix, EmptyDict, FilterConfident(pm), 1),
               query_keywords, 1)

\* the possible outcomes of search(query_keywords, title) on the index ix when
\* fuzz.WRatio is W: one per table the matcher may return; on an index
\* without projects a title makes the matcher raise ValueError
search_outcomes(W, ix, query_keywords, title) ==
    IF title = "" THEN {search(ix, query_keywords, <<>>)}
    ELSE IF Len(ix.keys) = 0
    THEN {[status |-> "ValueError", results |-> EmptyDict]}
    ELSE {search(ix, query_keywords, pm) :
             pm \in fuzzy_nn_match(W, title, ix.keys, NNeighbors, Limit)}

----------------------------------------------------------------------------
(* Tables (pandas DataFrames) are sequences of rows *)

\* KeywordSearchIndex.to_dataframe: one row per (project, activity) of results,
\* in the iteration order of the nested dict
to_dataframe(res) ==
    [i \in 1..Len(items(res)) |->
        [project |-> items(res)[i][1],
         activity |-> items(res)[i][2],
         match_count |-> Cell(res, items(res)[i][1], items(res)[i][2])]]

----------------------------------------------------------------------------
(* FaissIndex: faiss.IndexFlatIP plus the list index_items.  A vector has two
   components in thousandths, so an inner product is a number of millionths. *)

UnitVectors == {<<1000, 0>>, <<0, 1000>>, <<600, 800>>}

Dot(u, v) == u[1] * v[1] + u[2] * v[2]

\* FaissIndex(dim): an empty store
NewFaissIndex == [vectors |-> <<>>, index_items |-> <<>>]

\* faulty variant: the store is not reset before the vectors are added
set_embeddings_append(ci, embeddings, index_items) ==
    [vectors |-> ci.vectors \o embeddings, index_items |-> index_items]

\* set_embeddings: index.reset(); index.add(embeddings); index_items = items
set_embeddings(ci, embeddings, index_items) ==
    [vectors |-> embeddings, index_items |-> index_items]

\* FaissIndex.process_query_document: f"{title} / {body}".strip("/ "),
\* as the list of the words and "/" separators of the string
context_query(title, body) ==
    IF words(title) = <<>> THEN body
    ELSE IF body = <<>> THEN words(title)
    ELSE words(title) \o <<"/">> \o body

\* the similarity faiss reports in a slot it could not fill (-3.4e38)
NoDistance == 0 - 1000 * Unit

\* faulty variant: the stored vectors with the smallest inner product first
faiss_search_smallest(ci, query, k) ==
    LET n == Len(ci.vectors)
        m == Min(k, n)
        sc(i) == Dot(ci.vectors[i], query)
    IN  {idx \in [1..k -> (1..n) \cup {-1}] :
            /\ \A a \in 1..m : idx[a] \in 1..n
            /\ \A a \in (m + 1)..k : idx[a] = -1
            /\ \A a, b \in 1..m : a < b => idx[a] # idx[b] /\ sc(idx[a]) <= sc(idx[b])
            /\ \A a \in 1..m :
                  \A o \in (1..n) \ {idx[x] : x \in 1..m} : sc(idx[a]) <= sc(o)}

\* index.search(query, k): the stored vectors with the largest inner product,
\* in non-increasing order of the product; faiss decides the order among equal
\* products, any is possible.  Positions are counted from 1.  With fewer than
\* k stored vectors the slots left over hold the index -1.
faiss_search(ci, query, k) ==
    LET n == Len(ci.vectors)
        m == Min(k, n)
        sc(i) == Dot(ci.vectors[i], query)
    IN  {idx \in [1..k -> (1..n) \cup {-1}] :
            /\ \A a \in 1..m : idx[a] \in 1..n
            /\ \A a \in (m + 1)..k : idx[a] = -1
            /\ \A a, b \in 1..m : a < b => idx[a] # idx[b] /\ sc(idx[a]) >= sc(idx[b])
            /\ \A a \in 1..m :
                  \A o \in (1..n) \ {idx[x] : x \in 1..m} : sc(idx[a]) >= sc(o)}

\* self.index_items[i] for an index i that faiss returned: -1 is Python's
\* last element, a position past the end raises IndexError
HasItem(index_items, i) ==
    IF i = -1 THEN Len(index_items) > 0 ELSE i <= Len(index_items)

ItemAt(index_items, i) ==
    IF i = -1 THEN index_items[Len(index_items)] ELSE index_items[i]

NoResult(outcome) ==
    [status |-> outcome, distances |-> <<>>, indices |-> <<>>, items |-> <<>>]

\* faulty variant: every slot gets the label of the first slot
search_by_vector_query_first_label(ci, query, k) ==
    LET kk == IF k = <<>> THEN Len(ci.index_items) ELSE k[1]
        outcome(idx) ==
            IF \E j \in 1..kk : ~HasItem(ci.index_items, idx[j])
            THEN NoResult("IndexError")
            ELSE [status |-> "ok",
                  distances |-> [j \in 1..kk |->
                      IF idx[j] = -1 THEN NoDistance
                      ELSE Dot(ci.vectors[idx[j]], query)],
                  indices |-> idx,
                  items |-> [j \in 1..kk |-> ItemAt(ci.index_items, idx[1])]]
    IN  IF kk = 0 THEN {NoResult("AssertionError"), NoResult("ok")}
        ELSE {outcome(idx) : idx \in faiss_search(ci, query, kk)}

\* search_by_vector_query: k = None (<<>>) means k = len(index_items); returns
\* the possible outcomes, (distances, indices, labels) or the exception.
\* index.search with k = 0 fails faiss's assertion k > 0, or in the releases
\* without that assertion returns no slot.
search_by_vector_query(ci, query, k) ==
    LET kk == IF k = <<>> THEN Len(ci.index_items) ELSE k[1]
        outcome(idx) ==
            IF \E j \in 1..kk : ~HasItem(ci.index_items, idx[j])
            THEN NoResult("IndexError")
            ELSE [status |-> "ok",
                  distances |-> [j \in 1..kk |->
                      IF idx[j] = -1 THEN NoDistance
                      ELSE Dot(ci.vectors[idx[j]], query)],
                  indices |-> idx,
                  items |-> [j \in 1..kk |-> ItemAt(ci.index_items, idx[j])]]
    IN  IF kk = 0 THEN {NoResult("AssertionError"), NoResult("ok")}
        ELSE {outcome(idx) : idx \in faiss_search(ci, query, kk)}

\* str.split(": ") on a label, itself the list of its parts and ": " separators
split_label(label) == SelectSeq(label, LAMBDA part : part # ": ")

\* the number of columns str.split(": ", expand=True) makes of the labels: as
\* many as the label with the most parts has
split_columns(labels) ==
    LET widths == {Len(split_label(labels[j])) : j \in 1..Len(labels)}
    IN  IF widths = {} THEN 0
        ELSE CHOOSE w \in widths : \A v \in widths : v <= w

\* FaissIndex.to_dataframe: context_score and the two parts of the label (the
\* assignment to the two columns project and activity raises ValueError
\* unless the split made exactly two columns: split_columns = 2)
context_to_dataframe(found) ==
    [j \in 1..Len(found.items) |->
        [context_score |-> found.distances[j],
         project |-> split_label(found.items[j])[1],
         activity |-> split_label(found.items[j])[2]]]

----------------------------------------------------------------------------
(* Persistence.  A file is missing, holds text that is not JSON, or holds a
   JSON value; a JSON value is a string, an array or an object (a dict in
   key order), tagged by t. *)

JString(s) == [t |-> "string", v |-> s]
JArray(a) == [t |-> "array", v |-> a]
JObject(d) == [t |-> "object", v |-> d]

MissingFile == [kind |-> "missing", value |-> <<>>]
NotJson == [kind |-> "text", value |-> <<>>]
JsonFile(j) == [kind |-> "json", value |-> j]

\* the strings that occur as keywords, in Python's str order
SortedStrings == <<"a", "ab", "demo", "eng", "f", "fat", "gasum", "plan", "t">>

\* sorted(keywords)
sorted(keywords) == SelectSeq(SortedStrings, LAMBDA w : w \in keywords)

\* iterating a str yields its characters
Chars(s) ==
    CASE s = "fat" -> <<"f", "a", "t">>
      [] s = "" -> <<>>
      [] OTHER -> <<s>>

\* KeywordSearchIndex.save: project -> activity -> sorted list of keywords
KeywordSearchIndex_save(ix) ==
    JsonFile(JObject(
        [keys |-> ix.keys,
         vals |-> [p \in DOMAIN ix.vals |->
            JObject([keys |-> ix.vals[p].keys,
                     vals |-> [a \in DOMAIN ix.vals[p].vals |->
                        JArray([i \in 1..Len(sorted(ix.vals[p].vals[a])) |->
                            JString(sorted(ix.vals[p].vals[a])[i])])]])]]))

\* faulty variant: only the first keyword of a list is kept
set_of_head(j) ==
    IF j.t = "array" /\ Len(j.v) > 0
    THEN [status |-> "ok", set |-> {j.v[1].v}]
    ELSE [status |-> "ok", set |-> {}]

\* set(keywords) on a JSON value: a list gives the set of its elements (a
\* list or dict among them is unhashable, TypeError), a str the set of its
\* characters, a dict the set of its keys
set_of(j) ==
    IF j.t = "array"
    THEN IF \A i \in 1..Len(j.v) : j.v[i].t = "string"
         THEN [status |-> "ok", set |-> {j.v[i].v : i \in 1..Len(j.v)}]
         ELSE [status |-> "TypeError", set |-> {}]
    ELSE IF j.t = "string"
    THEN [status |-> "ok", set |-> Range(Chars(j.v))]
    ELSE [status |-> "ok", set |-> Range(j.v.keys)]

RECURSIVE load_activities(_, _, _, _)
\* for activity, keywords in activities.items():
\*     empty_index[project][activity] = set(keywords)
load_activities(acc, project, activities, j) ==
    IF j > Len(activities.keys) THEN [status |-> "ok", index |-> acc]
    ELSE LET activity == activities.keys[j]
             kws == set_of(activities.vals[activity])
         IN  IF kws.status # "ok" THEN [status |-> kws.status, index |-> acc]
             ELSE load_activities(SetCell(acc, project, activity, kws.set),
                                  project, activities, j + 1)

RECURSIVE load_projects(_, _, _)
\* for project, activities in index_raw.items(): activities.items() exists
\* on a dict only
load_projects(acc, index_raw, i) ==
    IF i > Len(index_raw.keys) THEN [status |-> "ok", index |-> acc]
    ELSE LET project == index_raw.keys[i]
             activities == index_raw.vals[project]
         IN  IF activities.t # "object"
             THEN [status |-> "AttributeError", index |-> acc]
             ELSE LET r == load_activities(acc, project, activities.v, 1)
                  IN  IF r.status # "ok" THEN r
                      ELSE load_projects(r.index, index_raw, i + 1)

\* KeywordSearchIndex.from_file: the exception raised, or the index of the
\* instance returned
KeywordSearchIndex_from_file(file) ==
    IF file.kind = "missing"
    THEN [status |-> "FileNotFoundError", index |-> EmptyDict]
    ELSE IF file.kind = "text"
    THEN [status |-> "JSONDecodeError", index |-> EmptyDict]
    ELSE IF file.value.t # "object"
    THEN [status |-> "AttributeError", index |-> EmptyDict]
    ELSE LET r == load_projects(EmptyDict, file.value.v, 1)
         IN  IF r.status = "ok" THEN r ELSE [r EXCEPT !.index = EmptyDict]

\* what faiss.write_index leaves in faiss_ip.index: the stored vectors
FaissBlob(vectors) == [kind |-> "faiss", value |-> vectors]

\* FaissIndex.save: the store, and index_items as a JSON list of strings in
\* the sidecar faiss_ip.index.json
FaissIndex_save(ci) ==
    [blob |-> FaissBlob(ci.vectors),
     sidecar |-> JsonFile(JArray([i \in 1..Len(ci.index_items) |->
                                     JString(ci.index_items[i])]))]

\* FaissIndex.from_file: faiss.read_index raises RuntimeError on a file that
\* is missing or is not a faiss index; then the sidecar is opened and parsed.
\* The sidecars of the model that parse are JSON lists of strings.  Nothing
\* compares the two lengths.
FaissIndex_from_file(file) ==
    IF file.blob.kind # "faiss"
    THEN [status |-> "RuntimeError", index |-> NewFaissIndex]
    ELSE IF file.sidecar.kind = "missing"
    THEN [status |-> "FileNotFoundError", index |-> NewFaissIndex]
    ELSE IF file.sidecar.kind = "text"
    THEN [status |-> "JSONDecodeError", index |-> NewFaissIndex]
    ELSE [status |-> "ok",
          index |-> [vectors |-> file.blob.value,
                     index_items |-> [i \in 1..Len(file.sidecar.value.v) |->
                                         file.sidecar.value.v[i].v]]]

----------------------------------------------------------------------------
(* Pipeline.run: the fusion of the two tables of one event *)

RECURSIVE merge_from(_, _, _)
\* pd.merge(left, right, on=["project", "activity"]): an inner join, the rows in
\* the order of the left table and, for one left row, of the right table
merge_from(left, right, i) ==
    IF i > Len(left) THEN <<>>
    ELSE LET l == left[i]
             hits == SelectSeq(right, LAMBDA r :
                        r.project = l.project /\ r.activity = l.activity)
         IN  [j \in 1..Len(hits) |->
                 [project |-> l.project, activity |-> l.activity,
                  match_count |-> l.match_count,
                  context_score |-> hits[j].context_score]]
             \o merge_from(left, right, i + 1)

merge(left, right) == merge_from(left, right, 1)

\* result_df["match_confidence"] = match_count + context_score
with_match_confidence(df) ==
    [j \in 1..Len(df) |->
        [project |-> df[j].project, activity |-> df[j].activity,
         match_count |-> df[j].match_count,
         context_score |-> df[j].context_score,
         match_confidence |-> df[j].match_count + df[j].context_score]]

\* faulty variant: the row with the smallest match_confidence
idxmin(df) ==
    CHOOSE j \in 1..Len(df) :
        /\ \A k \in 1..Len(df) : df[j].match_confidence <= df[k].match_confidence
        /\ \A k \in 1..(j - 1) : df[k].match_confidence # df[j].match_confidence

\* Series.idxmax on a table with rows: the first row that holds the maximum
\* faulty variant: the last row that has the maximum
idxmax_last(df) ==
    CHOOSE j \in 1..Len(df) :
        /\ \A k \in 1..Len(df) : df[j].match_confidence >= df[k].match_confidence
        /\ \A k \in (j + 1)..Len(df) : df[k].match_confidence # df[j].match_confidence

idxmax(df) ==
    CHOOSE j \in 1..Len(df) :
        /\ \A k \in 1..Len(df) : df[j].match_confidence >= df[k].match_confidence
        /\ \A k \in 1..(j - 1) : df[k].match_confidence # df[j].match_confidence

\* faulty variant: the two component scores change places
output_record_swapped(row) ==
    [project_description |-> row.project,
     project_activity |-> row.activity,
     pred_confidence_score_keyword |-> row.context_score,
     pred_confidence_score_context |-> row.match_count,
     pred_confidence_score |-> row.match_confidence]

\* result_df.loc[[idx_max], :].rename(columns=...).to_dict(orient="records")[0]
output_record(row) ==
    [project_description |-> row.project,
     project_activity |-> row.activity,
     pred_confidence_score_keyword |-> row.match_count,
     pred_confidence_score_context |-> row.context_score,
     pred_confidence_score |-> row.match_confidence]

----------------------------------------------------------------------------
(* Building and querying a keyword index *)

\* keyword sets passed to search
QueryKeywordSets == {{}, {"fat"}, {"ab", "plan"}, {"eng", "fat"}}

\* the title after preprocess_string, for the titles the matcher is called with
MatcherRows == {preprocess_string(t) : t \in Titles \ {""}}
MatcherNames == {preprocess_string(p) : p \in Projects}

NoCall == [op |-> "none", project |-> "", activity |-> "", content |-> <<>>,
           threshold |-> 0, query_keywords |-> {}, title |-> "",
           query |-> <<>>, k |-> <<>>, k_given |-> FALSE,
           embeddings |-> <<>>, items |-> <<>>, stored_before |-> 0]

\* nothing loaded by run yet
NotLoaded == [index |-> EmptyDict, context_index |-> NewFaissIndex, events |-> <<>>]

\* neither faiss_ip.index nor its sidecar exists
NoFaissFile == [blob |-> MissingFile, sidecar |-> MissingFile]

\* Pipeline.run has not been called
Idle ==
    /\ pc = "start"
    /\ context_index = NewFaissIndex
    /\ encoder = <<>>
    /\ events = <<>>
    /\ done = 0
    /\ error = ""
    /\ raised_in = ""
    /\ search_results_df = <<>>
    /\ context_result_df = <<>>
    /\ result_df = <<>>
    /\ loaded = NotLoaded

\* the recurrence of a meeting that has none (None), and of a weekly or
\* other pattern: pattern.type, pattern.daysOfWeek, pattern.interval and
\* range.endDate (a day number)
NoRecurrence ==
    [is_none |-> TRUE, type |-> "", daysOfWeek |-> <<>>, interval |-> 0,
     endDate |-> 0]

\* no CalendarMeeting is being constructed
NoMeeting ==
    /\ start = 0
    /\ recurrence = NoRecurrence
    /\ occ = <<>>
    /\ instances = <<>>
    /\ rec_pc = "start"
    /\ rec_error = ""

\* the HTTP endpoint has answered nothing
NoExchange ==
    /\ response = <<>>
    /\ responseString = <<>>
    /\ received = <<>>
    /\ rt_pc = "build"

KwInit ==
    /\ index = EmptyDict
    /\ n_docs = 0
    /\ WRatio \in [MatcherRows \X MatcherNames -> Confidences]
    /\ lastOp = NoCall
    /\ repeated = FALSE
    /\ pre_index = EmptyDict
    /\ status = "ok"
    /\ results = EmptyDict
    /\ raw_match = <<>>
    /\ project_match = <<>>
    /\ Idle
    /\ kw_file = MissingFile
    /\ vec_file = NoFaissFile
    /\ vec_out = NoResult("none")
    /\ NoMeeting
    /\ NoExchange

Called(call) ==
    /\ lastOp' = call
    /\ repeated' = (call = lastOp)
    /\ pre_index' = index

NoSearchOutput ==
    /\ results' = EmptyDict
    /\ raw_match' = <<>>
    /\ project_match' = <<>>

AddCoreDocument ==
    \E d \in Documents :
        /\ n_docs < MaxDocs
        /\ index' = add_core_document(index, d.project, d.activity, d.content)
        /\ n_docs' = n_docs + 1
        /\ Called([NoCall EXCEPT !.op = "add_core_document",
                                 !.project = d.project, !.activity = d.activity,
                                 !.content = d.content])
        /\ status' = "ok"
        /\ NoSearchOutput
        /\ UNCHANGED <<auxvars, WRatio, plvars, fvars>>

RemoveFrequentKeywords ==
    \E t \in Thresholds :
        /\ index' = remove_frequent_keywords_from_index(index, t)
        /\ Called([NoCall EXCEPT !.op = "remove_frequent_keywords_from_index",
                                 !.threshold = t])
        /\ status' = "ok"
        /\ NoSearchOutput
        /\ UNCHANGED <<auxvars, n_docs, WRatio, plvars, fvars>>

\* search with a falsy title: the matcher is not called
SearchNoTitle ==
    \E qk \in QueryKeywordSets :
        LET out == search(index, qk, <<>>)
        IN  /\ Called([NoCall EXCEPT !.op = "search", !.query_keywords = qk])
            /\ status' = out.status
            /\ results' = out.results
            /\ raw_match' = <<>>
            /\ project_match' = <<>>
            /\ UNCHANGED <<auxvars, index, n_docs, WRatio, plvars, fvars>>

\* search with a title on an index without projects: TfidfVectorizer cannot
\* be fitted on an empty list of candidates, fuzzy_nn_match raises ValueError
SearchTitleEmptyIndex ==
    \E qk \in QueryKeywordSets, title \in Titles \ {""} :
        /\ Len(index.keys) = 0
        /\ Called([NoCall EXCEPT !.op = "search", !.query_keywords = qk,
                                 !.title = title])
        /\ status' = "ValueError"
        /\ NoSearchOutput
        /\ UNCHANGED <<auxvars, index, n_docs, WRatio, plvars, fvars>>

\* search with a title
SearchTitle ==
    \E qk \in QueryKeywordSets, title \in Titles \ {""} :
        /\ Len(index.keys) > 0
        /\ \E pm \in fuzzy_nn_match(WRatio, title, index.keys, NNeighbors, Limit) :
            LET out == search(index, qk, pm)
            IN  /\ status' = out.status
                /\ results' = out.results
                /\ raw_match' = pm
                /\ project_match' = FilterConfident(pm)
                /\ index' = read_projects(index, FilterConfident(pm), 1)
        /\ Called([NoCall EXCEPT !.op = "search", !.query_keywords = qk,
                                 !.title = title])
        /\ UNCHANGED <<auxvars, n_docs, WRatio, plvars, fvars>>

KwNext ==
    \/ AddCoreDocument
    \/ RemoveFrequentKeywords
    \/ SearchNoTitle
    \/ SearchTitleEmptyIndex
    \/ SearchTitle

Spec == KwInit /\ [][KwNext]_vars

----------------------------------------------------------------------------
(* Pipeline.run *)

RECURSIVE BuildIndex(_, _)
\* the index after add_core_document on the documents docs[1..n], in order
BuildIndex(docs, n) ==
    IF n = 0 THEN EmptyDict
    ELSE add_core_document(BuildIndex(docs, n - 1),
                           docs[n].project, docs[n].activity, docs[n].content)

CorpusA ==
    <<[project |-> "AB", activity |-> "Eng", content |-> <<"the", "FAT">>],
      [project |-> "AB", activity |-> "Demo", content |-> <<>>],
      [project |-> "Gasum", activity |-> "Eng", content |-> <<"the", "FAT">>]>>

CorpusB ==
    <<[project |-> "A&B", activity |-> "Eng", content |-> <<>>],
      [project |-> "Gasum", activity |-> "Demo", content |-> <<>>]>>

\* the indexes keyword_search_index.json may hold: built from a corpus, pruned
\* or not, or built from no document at all
PipelineIndexes ==
    {BuildIndex(CorpusA, Len(CorpusA)),
     remove_frequent_keywords_from_index(BuildIndex(CorpusA, Len(CorpusA)), 1),
     BuildIndex(CorpusB, Len(CorpusB)),
     EmptyDict}

\* a name as the list of its parts around each ": " it contains
NameParts(name) == IF name = "R: D" THEN <<"R", ": ", "D">> ELSE <<name>>

\* the label f"{project}: {activity}" as the list of its parts
Label(project, activity) == NameParts(project) \o <<": ">> \o NameParts(activity)

\* the stores faiss_ip.index (with its list of labels) may hold
PipelineContextIndexes ==
    {set_embeddings(NewFaissIndex,
        <<<<600, 800>>, <<0, 1000>>, <<1000, 0>>>>,
        <<Label("AB", "Demo"), Label("AB", "Eng"), Label("Gasum", "Eng")>>),
     set_embeddings(NewFaissIndex,
        <<<<1000, 0>>>>,
        <<Label("Gasum", "Eng")>>),
     set_embeddings(NewFaissIndex,
        <<<<1000, 0>>, <<1000, 0>>>>,
        <<Label("Gasum", "Eng"), Label("AB", "Eng")>>),
     set_embeddings(NewFaissIndex,
        <<<<0, 1000>>, <<1000, 0>>>>,
        <<Label("AB", "Eng"), Label("R: D", "Eng")>>)}

\* the events data_cleaned.json may list
Events ==
    {[ical_uid |-> "u1", subject |-> "AB plan", body_clean |-> <<"FAT">>],
     [ical_uid |-> "u2", subject |-> "", body_clean |-> <<"the", "Eng">>]}

EventLists == UNION {[1..n -> Events] : n \in 0..MaxEvents}

QueryDocuments == {context_query(e.subject, e.body_clean) : e \in Events}

\* what data/keyword_search_index.json may hold when run starts: an index
\* that save wrote, or nothing
PipelineKwFiles ==
    {KeywordSearchIndex_save(ix) : ix \in PipelineIndexes} \cup {MissingFile}

\* what data/faiss_ip.index and its sidecar may hold when run starts
PipelineVecFiles ==
    {FaissIndex_save(ci) : ci \in PipelineContextIndexes} \cup {NoFaissFile}

PlInit ==
    /\ index = EmptyDict
    /\ n_docs = 0
    /\ WRatio \in [MatcherRows \X MatcherNames -> Confidences]
    /\ lastOp = NoCall
    /\ repeated = FALSE
    /\ pre_index = EmptyDict
    /\ status = "ok"
    /\ results = EmptyDict
    /\ raw_match = <<>>
    /\ project_match = <<>>
    /\ pc = "start"
    /\ context_index = NewFaissIndex
    /\ encoder \in [QueryDocuments -> UnitVectors]
    /\ events = <<>>
    /\ done = 0
    /\ error = ""
    /\ raised_in = ""
    /\ search_results_df = <<>>
    /\ context_result_df = <<>>
    /\ result_df = <<>>
    /\ loaded = NotLoaded
    /\ kw_file \in PipelineKwFiles
    /\ vec_file \in PipelineVecFiles
    /\ vec_out = NoResult("none")
    /\ NoMeeting
    /\ NoExchange

\* lines 20-28: the keyword index is loaded, then the vector index, then the
\* events (any list data_cleaned.json may hold); an exception leaves run
Load ==
    /\ pc = "start"
    /\ LET kw == KeywordSearchIndex_from_file(kw_file)
           vec == FaissIndex_from_file(vec_file)
       IN  IF kw.status # "ok"
           THEN /\ pc' = "failed"
                /\ error' = kw.status
                /\ raised_in' = "KeywordSearchIndex.from_file"
                /\ UNCHANGED <<index, pre_index, context_index, events, loaded>>
           ELSE IF vec.status # "ok"
           THEN /\ pc' = "failed"
                /\ error' = vec.status
                /\ raised_in' = "FaissIndex.from_file"
                /\ index' = kw.index
                /\ pre_index' = kw.index
                /\ UNCHANGED <<context_index, events, loaded>>
           ELSE \E evs \in EventLists :
                /\ pc' = "loop"
                /\ index' = kw.index
                /\ pre_index' = kw.index
                /\ context_index' = vec.index
                /\ events' = evs
                /\ loaded' = [index |-> kw.index, context_index |-> vec.index,
                              events |-> evs]
                /\ UNCHANGED <<error, raised_in>>
    /\ UNCHANGED <<auxvars, n_docs, WRatio, lastOp, repeated, status, results, raw_match,
                   project_match, encoder, done, search_results_df,
                   context_result_df, result_df, fvars>>

\* faulty variant: the table of the previous event is used again
TitleMatches_stale(ix, title) ==
    IF done > 0 THEN {raw_match}
    ELSE IF title = "" THEN {<<>>}
    ELSE fuzzy_nn_match(WRatio, title, ix.keys, NNeighbors, Limit)

\* the tables fuzzy_nn_match may return in search(query_keywords, title): none
\* for a falsy title (the matcher is not called)
TitleMatches(ix, title) ==
    IF title = "" THEN {<<>>}
    ELSE fuzzy_nn_match(WRatio, title, ix.keys, NNeighbors, Limit)

\* the body of the loop for one event, up to the merge: the outcome of each
\* call, given the matcher's table pm, the store's answer found and whether
\* the embedding model could be run (encoded).  encode_documents is the
\* external embedding collaborator: it returns the unit vector of the query
\* document or raises (no "mps" device, no model files, or, with
\* vectorization/deep.py as it stands, the unexpected keyword device=);
\* "EncoderError" stands for whatever it raises.  The vector it returns is
\* already of norm 1, so the second normalization in FaissIndex.search keeps it.
LoopBody(event, pm, found, encoded) ==
    LET title == event.subject
        qk == process_query_document(title, event.body_clean)
        out == search(index, qk, pm)
        sr_df == to_dataframe(out.results)
        ctx_df == IF found.status = "ok" /\ split_columns(found.items) = 2
                  THEN context_to_dataframe(found) ELSE <<>>
        joined == with_match_confidence(merge(sr_df, ctx_df))
        base == [status |-> out.status, results |-> out.results,
                 search_results_df |-> <<>>, context_result_df |-> <<>>,
                 result_df |-> <<>>, error |-> "", raised_in |-> ""]
    IN  IF title # "" /\ Len(index.keys) = 0
        THEN [base EXCEPT !.status = "ValueError", !.results = EmptyDict,
                          !.error = "ValueError", !.raised_in = "search"]
        ELSE IF out.status # "ok"
        THEN [base EXCEPT !.error = out.status, !.raised_in = "search"]
        ELSE IF ~encoded
        THEN [base EXCEPT !.search_results_df = sr_df,
                          !.error = "EncoderError",
                          !.raised_in = "encode_documents"]
        ELSE IF found.status # "ok"
        THEN [base EXCEPT !.search_results_df = sr_df,
                          !.error = found.status,
                          !.raised_in = "search_by_vector_query"]
        ELSE IF split_columns(found.items) # 2
        THEN [base EXCEPT !.search_results_df = sr_df,
                          !.error = "ValueError",
                          !.raised_in = "FaissIndex.to_dataframe"]
        ELSE IF Len(sr_df) = 0
        THEN [base EXCEPT !.context_result_df = ctx_df,
                          !.error = "KeyError", !.raised_in = "merge"]
        ELSE IF Len(joined) = 0
        THEN [base EXCEPT !.search_results_df = sr_df,
                          !.context_result_df = ctx_df,
                          !.error = "ValueError", !.raised_in = "idxmax"]
        ELSE [base EXCEPT !.search_results_df = sr_df,
                          !.context_result_df = ctx_df,
                          !.result_df = joined]

\* faulty variant: the event is replaced by its prediction
update_replace(event, output) == output

\* event |= output[0]: the keys of the prediction are added to the event, a
\* key the event already has takes the prediction's value
update(event, output) == output @@ event

\* lines 29-82: one iteration of the loop.  An exception leaves run.
ProcessEvent ==
    /\ pc = "loop"
    /\ done < Len(events)
    /\ LET event == events[done + 1]
           query == encoder[context_query(event.subject, event.body_clean)]
       IN  \E pm \in (IF event.subject # "" /\ Len(index.keys) = 0 THEN {<<>>}
                      ELSE TitleMatches(index, event.subject)),
              found \in search_by_vector_query(context_index, query, <<>>),
              encoded \in BOOLEAN :
                LET o == LoopBody(event, pm, found, encoded)
                IN  /\ status' = o.status
                    /\ results' = o.results
                    /\ raw_match' = pm
                    /\ project_match' = FilterConfident(pm)
                    /\ search_results_df' = o.search_results_df
                    /\ context_result_df' = o.context_result_df
                    /\ result_df' = o.result_df
                    /\ error' = o.error
                    /\ raised_in' = o.raised_in
                    /\ IF o.error # ""
                       THEN /\ pc' = "failed"
                            /\ UNCHANGED <<events, done>>
                       ELSE /\ pc' = "loop"
                            /\ events' = [events EXCEPT ![done + 1] =
                                  update(event,
                                    output_record(o.result_df[idxmax(o.result_df)]))]
                            /\ done' = done + 1
                    /\ vec_out' = found
                    /\ index' = read_projects(index, FilterConfident(pm), 1)
    /\ lastOp' = [NoCall EXCEPT !.op = "search",
                     !.query_keywords = process_query_document(
                         events[done + 1].subject, events[done + 1].body_clean),
                     !.title = events[done + 1].subject]
    /\ UNCHANGED <<auxvars, n_docs, WRatio, repeated, pre_index, context_index,
                   encoder, loaded, kw_file, vec_file>>

\* line 83: return events
Return ==
    /\ pc = "loop"
    /\ done = Len(events)
    /\ pc' = "done"
    /\ UNCHANGED <<auxvars, kwvars, context_index, encoder, events, done, error, raised_in,
                   search_results_df, context_result_df, result_df, loaded, fvars>>

PlNext ==
    \/ Load
    \/ ProcessEvent
    \/ Return

PipelineSpec == PlInit /\ [][PlNext]_vars

----------------------------------------------------------------------------
(* The two indexes and their files: set_embeddings, search_by_vector_query,
   save and from_file of FaissIndex, save and from_file of KeywordSearchIndex *)

\* the (embeddings, items) pairs set_embeddings is called with: as many
\* labels as vectors; two equal vectors in the third, nothing in the last
EmbeddingSets ==
    {[embeddings |-> <<<<600, 800>>, <<0, 1000>>, <<1000, 0>>>>,
      items |-> <<Label("AB", "Demo"), Label("AB", "Eng"), Label("Gasum", "Eng")>>],
     [embeddings |-> <<<<1000, 0>>>>,
      items |-> <<Label("Gasum", "Eng")>>],
     [embeddings |-> <<<<1000, 0>>, <<1000, 0>>>>,
      items |-> <<Label("AB", "Eng"), Label("Gasum", "Eng")>>],
     [embeddings |-> <<>>, items |-> <<>>]}

\* the k search_by_vector_query is called with: none (the default applies),
\* None, or a number
KChoices ==
    {[k_given |-> FALSE, k |-> <<DefaultK>>], [k_given |-> TRUE, k |-> <<>>]}
    \cup {[k_given |-> TRUE, k |-> <<n>>] : n \in 1..3}

\* {key: value}
Single(key, value) == Put(EmptyDict, key, value)

\* what keyword_search_index.json may hold that save did not write: nothing,
\* text that is not JSON, a string where the list of keywords should be, a
\* list where the activities should be, a list instead of the projects
ForeignKwFiles ==
    {MissingFile,
     NotJson,
     JsonFile(JObject(Single("AB", JObject(Single("Eng", JString("fat")))))),
     JsonFile(JObject(Single("AB", JArray(<<JString("fat")>>)))),
     JsonFile(JArray(<<>>))}

\* what faiss_ip.index and its sidecar may hold that one save did not write:
\* nothing, three vectors with one label, one vector with two labels, a
\* sidecar that is not JSON, a file that is not a faiss index
ForeignVecFiles ==
    {NoFaissFile,
     [blob |-> FaissBlob(<<<<600, 800>>, <<0, 1000>>, <<1000, 0>>>>),
      sidecar |-> JsonFile(JArray(<<JString(Label("Gasum", "Eng"))>>))],
     [blob |-> FaissBlob(<<<<1000, 0>>>>),
      sidecar |-> JsonFile(JArray(<<JString(Label("AB", "Eng")),
                                    JString(Label("Gasum", "Eng"))>>))],
     [blob |-> FaissBlob(<<<<1000, 0>>>>), sidecar |-> NotJson],
     [blob |-> NotJson, sidecar |-> JsonFile(JArray(<<>>))]}

\* a timesheet row without Activity Description: read_csv(...).fillna("")
\* makes the missing value the empty string
CorpusC ==
    <<[project |-> "AB", activity |-> "", content |-> <<"the", "FAT">>]>>

\* the keyword indexes add_core_document and
\* remove_frequent_keywords_from_index have built when the model starts
BuiltIndexes == PipelineIndexes \cup {BuildIndex(CorpusC, Len(CorpusC))}

IxInit ==
    /\ index \in BuiltIndexes
    /\ n_docs = 0
    /\ WRatio = [x \in MatcherRows \X MatcherNames |-> MinConfidence]
    /\ lastOp = NoCall
    /\ repeated = FALSE
    /\ pre_index = index
    /\ status = "ok"
    /\ results = EmptyDict
    /\ raw_match = <<>>
    /\ project_match = <<>>
    /\ Idle
    /\ kw_file \in ForeignKwFiles
    /\ vec_file \in ForeignVecFiles
    /\ vec_out = NoResult("none")
    /\ NoMeeting
    /\ NoExchange

SetEmbeddings ==
    \E e \in EmbeddingSets :
        /\ context_index' = set_embeddings(context_index, e.embeddings, e.items)
        /\ Called([NoCall EXCEPT !.op = "set_embeddings",
                                 !.embeddings = e.embeddings, !.items = e.items,
                                 !.stored_before = Len(context_index.vectors)])
        /\ status' = "ok"
        /\ vec_out' = NoResult("none")
        /\ UNCHANGED <<auxvars, index, n_docs, WRatio, results, raw_match, project_match,
                       pc, encoder, events, done, error, raised_in,
                       search_results_df, context_result_df, result_df, loaded,
                       kw_file, vec_file>>

SearchByVectorQuery ==
    \E query \in UnitVectors, kc \in KChoices :
        \E out \in search_by_vector_query(context_index, query, kc.k) :
            /\ vec_out' = out
            /\ status' = out.status
            /\ Called([NoCall EXCEPT !.op = "search_by_vector_query",
                                     !.query = query, !.k = kc.k,
                                     !.k_given = kc.k_given])
            /\ UNCHANGED <<auxvars, index, n_docs, WRatio, results, raw_match,
                           project_match, plvars, kw_file, vec_file>>

FaissSave ==
    /\ vec_file' = FaissIndex_save(context_index)
    /\ Called([NoCall EXCEPT !.op = "FaissIndex.save"])
    /\ status' = "ok"
    /\ vec_out' = NoResult("none")
    /\ UNCHANGED <<auxvars, index, n_docs, WRatio, results, raw_match, project_match,
                   plvars, kw_file>>

\* index = FaissIndex.from_file(...): the instance is replaced when from_file
\* returns one
FaissFromFile ==
    LET r == FaissIndex_from_file(vec_file)
    IN  /\ status' = r.status
        /\ context_index' = IF r.status = "ok" THEN r.index ELSE context_index
        /\ Called([NoCall EXCEPT !.op = "FaissIndex.from_file"])
        /\ vec_out' = NoResult("none")
        /\ UNCHANGED <<auxvars, index, n_docs, WRatio, results, raw_match, project_match,
                       pc, encoder, events, done, error, raised_in,
                       search_results_df, context_result_df, result_df, loaded,
                       kw_file, vec_file>>

KeywordSave ==
    /\ kw_file' = KeywordSearchIndex_save(index)
    /\ Called([NoCall EXCEPT !.op = "KeywordSearchIndex.save"])
    /\ status' = "ok"
    /\ vec_out' = NoResult("none")
    /\ UNCHANGED <<auxvars, index, n_docs, WRatio, results, raw_match, project_match,
                   plvars, vec_file>>

KeywordFromFile ==
    LET r == KeywordSearchIndex_from_file(kw_file)
    IN  /\ status' = r.status
        /\ index' = IF r.status = "ok" THEN r.index ELSE index
        /\ Called([NoCall EXCEPT !.op = "KeywordSearchIndex.from_file"])
        /\ vec_out' = NoResult("none")
        /\ UNCHANGED <<auxvars, n_docs, WRatio, results, raw_match, project_match,
                       plvars, kw_file, vec_file>>

IxNext ==
    \/ SetEmbeddings
    \/ SearchByVectorQuery
    \/ FaissSave
    \/ FaissFromFile
    \/ KeywordSave
    \/ KeywordFromFile

IndexSpec == IxInit /\ [][IxNext]_vars

----------------------------------------------------------------------------
(* CalendarMeeting.process_recurrence.  A date is a day number, day 0 being
   a Monday; the meeting's start and the dates of occ all carry the time of
   day of start, so they compare as their dates do. *)

\* the latest start and the latest endDate of the meetings considered
MaxStart == 3
MaxEnd == 10
\* the dates of instances the model records; the loop goes on past them
MaxInstances == 5
\* datetime.min, below which adding a timedelta raises OverflowError
MinDay == 0 - MaxEnd

Weekdays ==
    <<"monday", "tuesday", "wednesday", "thursday", "friday", "saturday",
      "sunday">>

\* date.strftime("%A").lower()
weekday_name(date) == Weekdays[(date % 7) + 1]

\* an entry of occ: a weekday name as daysOfWeek gives it, or the date that
\* replaced it
DayName(name) == [is_date |-> FALSE, name |-> name, date |-> 0]
Date(date) == [is_date |-> TRUE, name |-> "", date |-> date]

\* list.index(x): the first position of x
list_index(list, x) ==
    CHOOSE j \in 1..Len(list) :
        /\ list[j] = x
        /\ \A h \in 1..(j - 1) : list[h] # x

RECURSIVE replace_weekdays(_, _, _)
\* lines 50-57: for i in i..6, the first entry of occ that is the name of
\* the weekday of start + i becomes that date
replace_weekdays(list, first, i) ==
    IF i > 6 THEN list
    ELSE LET curr == first + i
             name == DayName(weekday_name(curr))
         IN  replace_weekdays(
                 IF \E j \in 1..Len(list) : list[j] = name
                 THEN [list EXCEPT ![list_index(list, name)] = Date(curr)]
                 ELSE list,
                 first, i + 1)

\* min(occ), all entries being dates: the first of the earliest
min_date(list) ==
    list[CHOOSE j \in 1..Len(list) :
            /\ \A h \in 1..Len(list) : list[j].date <= list[h].date
            /\ \A h \in 1..(j - 1) : list[h].date > list[j].date]

\* the weekday lists of the recurrences considered: non-empty, of names the
\* calendar uses, one of them naming a day twice
DayLists ==
    {<<"monday">>, <<"wednesday">>, <<"sunday">>,
     <<"monday", "wednesday">>, <<"friday", "monday">>,
     <<"wednesday", "sunday">>, <<"monday", "monday">>}

Intervals == {-1, 0, 1, 2}

Recurrences ==
    {NoRecurrence}
    \cup {[is_none |-> FALSE, type |-> "absoluteMonthly", daysOfWeek |-> <<>>,
           interval |-> 1, endDate |-> MaxEnd]}
    \cup {[is_none |-> FALSE, type |-> "weekly", daysOfWeek |-> days,
           interval |-> n, endDate |-> e] :
              days \in DayLists, n \in Intervals, e \in 0..MaxEnd}

RcInit ==
    /\ index = EmptyDict
    /\ n_docs = 0
    /\ WRatio = <<>>
    /\ lastOp = NoCall
    /\ repeated = FALSE
    /\ pre_index = EmptyDict
    /\ status = "ok"
    /\ results = EmptyDict
    /\ raw_match = <<>>
    /\ project_match = <<>>
    /\ Idle
    /\ kw_file = MissingFile
    /\ vec_file = NoFaissFile
    /\ vec_out = NoResult("none")
    /\ start \in 0..MaxStart
    /\ recurrence \in Recurrences
    /\ occ = <<>>
    /\ instances = <<>>
    /\ rec_pc = "start"
    /\ rec_error = ""
    /\ NoExchange

\* lines 42-43: no recurrence, the meeting takes place once
RecurrenceNone ==
    /\ rec_pc = "start"
    /\ recurrence.is_none
    /\ instances' = <<start>>
    /\ rec_pc' = "done"
    /\ UNCHANGED <<kwvars, plvars, fvars, start, recurrence, occ, rec_error,
                   rtvars>>

\* lines 46-47: a pattern that is not weekly
RecurrenceNotWeekly ==
    /\ rec_pc = "start"
    /\ ~recurrence.is_none
    /\ recurrence.type # "weekly"
    /\ rec_pc' = "failed"
    /\ rec_error' = "Exception"
    /\ UNCHANGED <<kwvars, plvars, fvars, start, recurrence, occ, instances,
                   rtvars>>

\* lines 49-57: occ is the copy of daysOfWeek, each weekday replaced by its
\* first date from start on
ReplaceWeekdays ==
    /\ rec_pc = "start"
    /\ ~recurrence.is_none
    /\ recurrence.type = "weekly"
    /\ occ' = replace_weekdays(
                  [j \in 1..Len(recurrence.daysOfWeek) |->
                      DayName(recurrence.daysOfWeek[j])],
                  start, 0)
    /\ rec_pc' = "loop"
    /\ UNCHANGED <<kwvars, plvars, fvars, start, recurrence, instances,
                   rec_error, rtvars>>

\* lines 58-69: the head of an iteration.  min(occ) raises TypeError when a
\* name is left among the dates; the loop is left when the earliest date of
\* occ is after endDate
LoopTest ==
    /\ rec_pc = "loop"
    /\ IF \E j \in 1..Len(occ) : ~occ[j].is_date
       THEN /\ rec_pc' = "failed"
            /\ rec_error' = "TypeError"
       ELSE /\ rec_pc' = IF recurrence.endDate < min_date(occ).date
                         THEN "done" ELSE "append"
            /\ UNCHANGED rec_error
    /\ UNCHANGED <<kwvars, plvars, fvars, start, recurrence, occ, instances,
                   rtvars>>

\* lines 70-75: the earliest date is appended, and its entry moves on by
\* interval weeks
LoopAppend ==
    /\ rec_pc = "append"
    /\ LET earliest == min_date(occ)
           next_date == earliest.date + 7 * recurrence.interval
       IN  /\ instances' = IF Len(instances) < MaxInstances
                           THEN Append(instances, earliest.date)
                           ELSE instances
           /\ IF next_date < MinDay
              THEN /\ rec_pc' = "failed"
                   /\ rec_error' = "OverflowError"
                   /\ UNCHANGED occ
              ELSE /\ rec_pc' = "loop"
                   /\ occ' = [occ EXCEPT ![list_index(occ, earliest)] =
                                 Date(next_date)]
                   /\ UNCHANGED rec_error
    /\ UNCHANGED <<kwvars, plvars, fvars, start, recurrence, rtvars>>

RcNext ==
    \/ RecurrenceNone
    \/ RecurrenceNotWeekly
    \/ ReplaceWeekdays
    \/ LoopTest
    \/ LoopAppend

RecurrenceSpec == RcInit /\ [][RcNext]_vars

\* the interpreter goes on with the method as long as it has a next statement
RecurrenceFairSpec == RecurrenceSpec /\ WF_vars(RcNext)

----------------------------------------------------------------------------
(* The results of the HTTP endpoint: rest_api/result.py.  An object is the
   record of its attributes, a dict the record of its keys; confidence is in
   millionths. *)

\* results in one response
MaxResults == 2

\* ProjectDefinition.__init__, lines 8-18: the attribute project_description
\* takes the argument project_definition, and the other way round
ProjectDefinition(project_description, project_definition, activity_description, confidence) ==
    [project_description |-> project_definition,
     project_definition |-> project_description,
     activity_description |-> activity_description,
     confidence |-> confidence]

\* ProjectDefinition.to_dict: each attribute under its own name
ProjectDefinition_to_dict(self) ==
    [project_description |-> self.project_description,
     project_definition |-> self.project_definition,
     activity_description |-> self.activity_description,
     confidence |-> self.confidence]

\* ProjectDefinition.from_dict: the constructor, called with the keys of data
\* as keyword arguments
ProjectDefinition_from_dict(data) ==
    ProjectDefinition(data.project_description, data.project_definition,
                      data.activity_description, data.confidence)

\* datetime.isoformat and datetime.fromisoformat: a datetime is its date (a
\* day number) and its time of day, the text is "<date>T<time>"
isoformat(datetime) == <<datetime.date, "T", datetime.time>>
fromisoformat(text) == [date |-> text[1], time |-> text[3]]

\* ProjectResult.__init__
ProjectResult(project, datetime_start, user_id, duration, subject, body) ==
    [project |-> project, datetime_start |-> datetime_start,
     user_id |-> user_id, duration |-> duration, subject |-> subject,
     body |-> body]

\* ProjectResult.to_dict
ProjectResult_to_dict(self) ==
    [project |-> ProjectDefinition_to_dict(self.project),
     datetime_start |-> isoformat(self.datetime_start),
     user_id |-> self.user_id,
     duration |-> self.duration,
     subject |-> self.subject,
     body |-> self.body]

\* ProjectResult.from_dict
ProjectResult_from_dict(data) ==
    ProjectResult(ProjectDefinition_from_dict(data.project),
                  fromisoformat(data.datetime_start),
                  data.user_id, data.duration, data.subject, data.body)

\* json.dumps and json.loads: the text of a value, and the value of a text
json_dumps(value) == [text |-> value]
json_loads(json_str) == json_str.text

\* SearchResults.serialize
serialize(list) ==
    json_dumps([results |-> [j \in 1..Len(list) |-> ProjectResult_to_dict(list[j])]])

\* SearchResults.deserialize: the results of the text, added one by one
deserialize(json_str) ==
    LET data == json_loads(json_str)
    IN  [j \in 1..Len(data.results) |-> ProjectResult_from_dict(data.results[j])]

\* the results the server holds (rest-api.py, lines 15-40): built by the
\* constructors from the events of data_results.json
ProjectResults ==
    {ProjectResult(ProjectDefinition(description, definition, "Eng", 990000),
                   [date |-> 1, time |-> 9], user, 1, "AB plan", "FAT") :
        description \in {"AB", "Gasum"}, definition \in {"yy", "AB"},
        user \in {"u1", "u2"}}

RtInit ==
    /\ index = EmptyDict
    /\ n_docs = 0
    /\ WRatio = <<>>
    /\ lastOp = NoCall
    /\ repeated = FALSE
    /\ pre_index = EmptyDict
    /\ status = "ok"
    /\ results = EmptyDict
    /\ raw_match = <<>>
    /\ project_match = <<>>
    /\ Idle
    /\ kw_file = MissingFile
    /\ vec_file = NoFaissFile
    /\ vec_out = NoResult("none")
    /\ NoMeeting
    /\ NoExchange

\* SearchResults.Add, as search() calls it for each result it keeps
Add ==
    /\ rt_pc = "build"
    /\ Len(response) < MaxResults
    /\ \E result \in ProjectResults : response' = Append(response, result)
    /\ UNCHANGED <<kwvars, plvars, fvars, rcvars, responseString, received,
                   rt_pc>>

\* responseString = response.serialize(), the body the endpoint answers with
Serialize ==
    /\ rt_pc = "build"
    /\ responseString' = serialize(response)
    /\ rt_pc' = "sent"
    /\ UNCHANGED <<kwvars, plvars, fvars, rcvars, response, received>>

\* search_projects: SearchResults.deserialize(response.text)
Deserialize ==
    /\ rt_pc = "sent"
    /\ received' = deserialize(responseString)
    /\ rt_pc' = "received"
    /\ UNCHANGED <<kwvars, plvars, fvars, rcvars, response, responseString>>

RtNext ==
    \/ Add
    \/ Serialize
    \/ Deserialize

ResultSpec == RtInit /\ [][RtNext]_vars

----------------------------------------------------------------------------
(* Properties of the keyword index *)

Searched == lastOp.op = "search"
Returned == Searched /\ status = "ok"

\* the projects of the filtered matching table, i.e. those that get a prior
Matched(p) == \E i \in 1..Len(project_match) : project_match[i].clean = p

Overlap(c) == Cell(index, c[1], c[2]) \cap lastOp.query_keywords

\* C1: search returns only cells whose score is > 0; a cell with no title
\* prior and no keyword in common with the query is not in the mapping.
C1_OnlyPositiveScores ==
    Returned =>
        /\ \A c \in CellSet(results) : Cell(results, c[1], c[2]) > 0
        /\ \A c \in CellSet(index) :
              (~Matched(c[1]) /\ Overlap(c) = {}) => ~HasCell(results, c[1], c[2])

\* C2: search does not raise a division by zero, whatever index the calls
\* add_core_document and remove_frequent_keywords_from_index have built.
C2_NoDivisionByZero ==
    Searched => status # "ZeroDivisionError"

\* C6: after remove_frequent_keywords_from_index(T) a keyword is in a cell iff
\* it was there before and at most T cells contained it before; the projects
\* and activities are the same, in the same order.
C6_PruningCorrect ==
    lastOp.op = "remove_frequent_keywords_from_index" =>
        /\ items(index) = items(pre_index)
        /\ index.keys = pre_index.keys
        /\ \A c \in CellSet(pre_index) : \A w \in Keywords :
              w \in Cell(index, c[1], c[2]) <=>
                  /\ w \in Cell(pre_index, c[1], c[2])
                  /\ Cardinality({e \in CellSet(pre_index) :
                                     w \in Cell(pre_index, e[1], e[2])})
                        <= lastOp.threshold

\* a pruning that removed a keyword from one cell and kept another keyword
C6_Witness ==
    /\ lastOp.op = "remove_frequent_keywords_from_index"
    /\ \E c \in CellSet(pre_index) :
          Cell(index, c[1], c[2]) # Cell(pre_index, c[1], c[2])
    /\ \E c \in CellSet(index) : Cell(index, c[1], c[2]) # {}

\* C7: add_core_document is idempotent: a second call with the same project,
\* activity and text changes nothing, from the index as it is in any state.
C7_AddIdempotent ==
    /\ (lastOp.op = "add_core_document" /\ repeated) => index = pre_index
    /\ \A d \in Documents :
          LET once == add_core_document(index, d.project, d.activity, d.content)
          IN  add_core_document(once, d.project, d.activity, d.content) = once

\* the same document added twice in a row, to a cell that has keywords
C7_Witness ==
    /\ lastOp.op = "add_core_document"
    /\ repeated
    /\ Cell(index, lastOp.project, lastOp.activity) # {}

\* the score of cell c when project p's prior is prior (millionths)
ScoreWith(prior, c) ==
    LET size == Cardinality(Cell(index, c[1], c[2]))
    IN  Round4(prior * size + Unit * Cardinality(Overlap(c)), size)

\* C8: a title match contributes a prior iff its confidence is >= 0.95:
\* 0.95 itself is kept, 0.9499 is dropped and changes no cell's score.
C8_ThresholdInclusive ==
    Searched =>
        \A i \in 1..Len(raw_match) :
            LET m == raw_match[i]
            IN  /\ m.match_confidence >= 950000 <=>
                      \E j \in 1..Len(project_match) : project_match[j] = m
                /\ m.match_confidence = 950000 => Matched(m.clean)
                /\ m.match_confidence = 949900 => ~Matched(m.clean)
                /\ (status = "ok" /\ m.match_confidence < 950000) =>
                      \A c \in CellSet(results) :
                          Cell(results, c[1], c[2]) = ScoreWith(0, c)
                /\ (status = "ok" /\ m.match_confidence >= 950000) =>
                      \A c \in CellSet(index) :
                          c[1] = m.clean =>
                              /\ HasCell(results, c[1], c[2])
                              /\ Cell(results, c[1], c[2]) >= 950000

\* a title match of confidence exactly 0.95 whose project's cells got the prior
C8_Witness ==
    /\ Returned
    /\ Len(raw_match) > 0
    /\ raw_match[1].match_confidence = 950000
    /\ \E c \in CellSet(results) :
          c[1] = raw_match[1].clean /\ Cell(results, c[1], c[2]) >= 950000

\* prior(p): the confidence of p's own title match when it is >= 0.95, else 0
PriorOf(p) ==
    IF \E i \in 1..Len(raw_match) :
           raw_match[i].clean = p /\ raw_match[i].match_confidence >= MinConfidence
    THEN WRatio[<<preprocess_string(lastOp.title), preprocess_string(p)>>]
    ELSE 0

\* C9: every emitted score is round(prior(p) + |cell & query| / |cell|, 4);
\* the prior goes to every activity of a matched project, so such a cell has
\* a score > 0 even with no keyword in common with the query.
C9_ScoreFormula ==
    Returned =>
        /\ \A c \in CellSet(results) :
              Cell(results, c[1], c[2]) = ScoreWith(PriorOf(c[1]), c)
        /\ \A c \in CellSet(index) :
              Matched(c[1]) =>
                  HasCell(results, c[1], c[2]) /\ Cell(results, c[1], c[2]) > 0

\* a matched project with two activities: one shares keywords with the query
\* and its sum is not a multiple of 0.0001, the other shares none
C9_Witness ==
    /\ Returned
    /\ \E c, e \in CellSet(results) :
          /\ c[1] = e[1] /\ c # e /\ Matched(c[1])
          /\ Overlap(c) # {} /\ Overlap(e) = {}
          /\ Cell(results, c[1], c[2]) > 1000000
          /\ Cell(results, e[1], e[2]) = 952400

\* C10: every cell that shares a keyword with the query is in the result of
\* search with a score > 0.
C10_OverlappingCellsEmitted ==
    Searched =>
        \A c \in CellSet(index) :
            Overlap(c) # {} =>
                HasCell(results, c[1], c[2]) /\ Cell(results, c[1], c[2]) > 0

----------------------------------------------------------------------------
(* Properties of Pipeline.run *)

\* the event processed last got its prediction
LastPredicted == pc \in {"loop", "done"} /\ done > 0

\* keyword_score + vector_score of every pair of rows of the two tables of the
\* event processed last that agree on (project, activity)
FusedScores ==
    {search_results_df[a].match_count + context_result_df[b].context_score :
        <<a, b>> \in {ab \in (1..Len(search_results_df)) \X (1..Len(context_result_df)) :
            /\ search_results_df[ab[1]].project = context_result_df[ab[2]].project
            /\ search_results_df[ab[1]].activity = context_result_df[ab[2]].activity}}

\* C3: the fused score of the prediction attached to an event is the maximum
\* of keyword_score + vector_score over the rows of the join of its two tables.
C3_FusedScoreIsMax ==
    LastPredicted =>
        /\ "pred_confidence_score" \in DOMAIN events[done]
        /\ events[done].pred_confidence_score \in FusedScores
        /\ \A f \in FusedScores : events[done].pred_confidence_score >= f

\* an event whose join has several rows, the best of them not the first
C3_Witness ==
    /\ LastPredicted
    /\ Len(result_df) >= 2
    /\ \E j \in 2..Len(result_df) :
          result_df[j].match_confidence > result_df[1].match_confidence

\* C4: run does not fail when the join of an event's two tables has no rows;
\* the event is returned without a prediction and the others are processed.
C4_EmptyJoinDoesNotFail ==
    pc = "failed" => raised_in \notin {"merge", "idxmax"}

\* C5: every candidate of the fusion is a cell of both tables and has a
\* non-zero keyword score.
C5_CandidatesHaveBothSignals ==
    \A j \in 1..Len(result_df) :
        /\ \E a \in 1..Len(search_results_df) :
              /\ search_results_df[a].project = result_df[j].project
              /\ search_results_df[a].activity = result_df[j].activity
        /\ \E b \in 1..Len(context_result_df) :
              /\ context_result_df[b].project = result_df[j].project
              /\ context_result_df[b].activity = result_df[j].activity
        /\ result_df[j].match_count > 0

\* the fields of a returned event that the loaded event had
Original(event, was) == [f \in DOMAIN was |-> event[f]]

PredictionFields ==
    {"project_description", "project_activity", "pred_confidence_score_keyword",
     "pred_confidence_score_context", "pred_confidence_score"}

\* C11: run returns the loaded events, one per loaded event and in the loaded
\* order, each with its own fields kept and a prediction added; during the
\* loop the events already processed are the enriched ones and the others
\* are as loaded.
C11_ReturnsLoadedEvents ==
    pc \in {"loop", "done"} =>
        /\ Len(events) = Len(loaded.events)
        /\ pc = "done" => done = Len(events)
        /\ \A i \in 1..Len(events) :
              /\ DOMAIN loaded.events[i] \subseteq DOMAIN events[i]
              /\ Original(events[i], loaded.events[i]) = loaded.events[i]
              /\ i <= done => PredictionFields \subseteq DOMAIN events[i]
              /\ i > done => events[i] = loaded.events[i]

\* two different events were loaded and run has returned
C11_Witness ==
    /\ pc = "done"
    /\ Len(events) = MaxEvents
    /\ events[1].ical_uid # events[Len(events)].ical_uid

\* C12: every event that got its prediction has the five prediction fields,
\* its fused score is the sum of its keyword and context scores, and the two
\* scores are those of the predicted (project, activity) in the keyword table
\* and in the vector table of that event.
C12_PredictionFields ==
    /\ pc \in {"loop", "done"} =>
          \A i \in 1..done :
              /\ PredictionFields \subseteq DOMAIN events[i]
              /\ events[i].pred_confidence_score =
                    events[i].pred_confidence_score_keyword
                    + events[i].pred_confidence_score_context
    /\ LastPredicted =>
          /\ \E a \in 1..Len(search_results_df) :
                /\ search_results_df[a].project = events[done].project_description
                /\ search_results_df[a].activity = events[done].project_activity
                /\ search_results_df[a].match_count =
                      events[done].pred_confidence_score_keyword
          /\ \E b \in 1..Len(context_result_df) :
                /\ context_result_df[b].project = events[done].project_description
                /\ context_result_df[b].activity = events[done].project_activity
                /\ context_result_df[b].context_score =
                      events[done].pred_confidence_score_context

\* a returned event whose two scores differ, predicted among several cells
C12_Witness ==
    /\ pc = "done"
    /\ done > 0
    /\ Len(result_df) >= 2
    /\ events[done].pred_confidence_score_keyword
          # events[done].pred_confidence_score_context

----------------------------------------------------------------------------
(* Properties of the vector index and of the persisted files *)

\* C13: in every state of a FaissIndex, after any sequence of set_embeddings
\* and from_file, there are as many stored vectors as labels in index_items.
C13_CountsAgree ==
    Len(context_index.vectors) = Len(context_index.index_items)

\* the two files parse, to n vectors and m labels with n # m
MismatchedFiles ==
    /\ vec_file.blob.kind = "faiss"
    /\ vec_file.sidecar.kind = "json"
    /\ Len(vec_file.blob.value) # Len(vec_file.sidecar.value.v)

\* C14: FaissIndex.from_file raises when the sidecar holds a number of labels
\* different from the number of vectors in the faiss file; it returns no
\* index then.
C14_FromFileValidatesCounts ==
    (lastOp.op = "FaissIndex.from_file" /\ MismatchedFiles) => status # "ok"

VectorSearched == lastOp.op = "search_by_vector_query"
VectorReturned == VectorSearched /\ status = "ok"

Stored == Len(context_index.vectors)
Labels == Len(context_index.index_items)

\* inner product of the stored vector i with the query of the last search
Product(i) == Dot(context_index.vectors[i], lastOp.query)

\* C15, as claimed: search_by_vector_query called without a k argument
\* returns the full ranked catalog, one result per stored vector.
C15_OmittedKReturnsCatalog ==
    (VectorReturned /\ ~lastOp.k_given /\ Stored = Labels) =>
        /\ Len(vec_out.indices) = Stored
        /\ Range(vec_out.indices) = 1..Stored

\* C15, amended: called without a k argument search_by_vector_query uses
\* k = 5; called with k = None it uses k = len(index_items), the full catalog
\* when there are as many labels as vectors.  It returns k slots; the first
\* min(k, stored) of them hold different stored vectors, those of largest
\* inner product with the query, in non-increasing order of the product, each
\* with its product and with the label at its position in index_items.
C15_TopK ==
    VectorReturned =>
        LET kk == IF lastOp.k = <<>> THEN Labels ELSE lastOp.k[1]
            m == Min(kk, Stored)
            idx == vec_out.indices
        IN  /\ ~lastOp.k_given => kk = DefaultK
            /\ Len(idx) = kk
            /\ Len(vec_out.distances) = kk
            /\ Len(vec_out.items) = kk
            /\ \A j \in 1..m :
                  /\ idx[j] \in 1..Stored
                  /\ vec_out.distances[j] = Product(idx[j])
                  /\ vec_out.items[j] = context_index.index_items[idx[j]]
                  /\ \A o \in (1..Stored) \ {idx[x] : x \in 1..m} :
                        Product(o) <= vec_out.distances[j]
            /\ \A a, b \in 1..m :
                  a < b => /\ idx[a] # idx[b]
                           /\ vec_out.distances[a] >= vec_out.distances[b]
            /\ (lastOp.k = <<>> /\ Stored = Labels) => Range(idx) = 1..Stored

\* k = 2 of a catalog of three, the best stored vector not the first
C15_Witness ==
    /\ VectorReturned
    /\ lastOp.k_given
    /\ lastOp.k = <<2>>
    /\ Stored = 3
    /\ Labels = 3
    /\ vec_out.indices[1] # 1
    /\ vec_out.distances[1] > vec_out.distances[2]

\* C16: after save, from_file of what was saved returns an index on which
\* every search has the same possible results as on the saved index: the same
\* cells with the same scores for the keyword index, the same distances,
\* positions and labels for the vector index.
C16_SaveLoadRoundTrip ==
    /\ lastOp.op = "KeywordSearchIndex.save" =>
          LET r == KeywordSearchIndex_from_file(kw_file)
          IN  /\ r.status = "ok"
              /\ \A W \in [MatcherRows \X MatcherNames -> Confidences],
                    qk \in QueryKeywordSets, title \in Titles :
                      search_outcomes(W, r.index, qk, title)
                          = search_outcomes(W, index, qk, title)
    /\ lastOp.op = "FaissIndex.save" =>
          LET r == FaissIndex_from_file(vec_file)
          IN  /\ r.status = "ok"
              /\ \A query \in UnitVectors, kc \in KChoices :
                      search_by_vector_query(r.index, query, kc.k)
                          = search_by_vector_query(context_index, query, kc.k)

\* both indexes were saved: a keyword index of several cells, one of them with
\* keywords, and a vector index of three vectors
C16_Witness ==
    /\ lastOp.op = "KeywordSearchIndex.save"
    /\ vec_file = FaissIndex_save(context_index)
    /\ Stored = 3
    /\ Len(items(index)) >= 3
    /\ \E c \in CellSet(index) : Cardinality(Cell(index, c[1], c[2])) >= 2

\* the stored vectors have norm 1
UnitStore == \A i \in 1..Stored : Dot(context_index.vectors[i], context_index.vectors[i]) = Unit

\* the positions whose stored vector is the query of the last search
SameAsQuery == {i \in 1..Stored : context_index.vectors[i] = lastOp.query}

\* C17, as claimed: searching with the stored vector i returns position i and
\* its label first, with similarity 1.0.
C17_SelfAtOwnPosition ==
    (VectorReturned /\ UnitStore /\ Stored = Labels /\ Len(vec_out.indices) >= 1) =>
        \A i \in SameAsQuery :
            /\ vec_out.indices[1] = i
            /\ vec_out.items[1] = context_index.index_items[i]
            /\ vec_out.distances[1] = Unit

\* C17, amended: searching a store of unit vectors with one of its vectors
\* returns first, with similarity 1.0, a position that holds this vector, and
\* the label of that position; it is position i when no other position holds
\* the same vector as i.
C17_SelfSimilarity ==
    (VectorReturned /\ UnitStore /\ SameAsQuery # {} /\ Len(vec_out.indices) >= 1) =>
        /\ vec_out.indices[1] \in SameAsQuery
        /\ vec_out.distances[1] = Unit
        /\ vec_out.items[1] = context_index.index_items[vec_out.indices[1]]
        /\ \A i \in SameAsQuery : SameAsQuery = {i} => vec_out.indices[1] = i

\* the whole catalog of three searched with its second vector
C17_Witness ==
    /\ VectorReturned
    /\ Stored = 3
    /\ Labels = 3
    /\ SameAsQuery = {2}
    /\ Len(vec_out.indices) = 3
    /\ vec_out.indices[1] = 2
    /\ vec_out.distances[1] = Unit

\* the file is what KeywordSearchIndex.save writes: a JSON object of objects
\* of lists of strings
PersistedKwFormat(file) ==
    /\ file.kind = "json"
    /\ file.value.t = "object"
    /\ \A p \in DOMAIN file.value.v.vals :
          /\ file.value.v.vals[p].t = "object"
          /\ \A a \in DOMAIN file.value.v.vals[p].v.vals :
                LET kws == file.value.v.vals[p].v.vals[a]
                IN  /\ kws.t = "array"
                    /\ \A i \in 1..Len(kws.v) : kws.v[i].t = "string"

\* the two files are what FaissIndex.save writes: a faiss index and a JSON
\* list of strings
PersistedVecFormat(file) ==
    /\ file.blob.kind = "faiss"
    /\ file.sidecar.kind = "json"
    /\ file.sidecar.value.t = "array"

\* C18: from_file raises when the file is missing or its content is not of
\* the persisted format; it returns no index built from such a file.
C18_LoadFailsFast ==
    /\ (lastOp.op = "KeywordSearchIndex.from_file" /\ ~PersistedKwFormat(kw_file))
          => status # "ok"
    /\ (lastOp.op = "FaissIndex.from_file" /\ ~PersistedVecFormat(vec_file))
          => status # "ok"

----------------------------------------------------------------------------
(* Frame and error properties of the searches *)

\* run has loaded both indexes
BothLoaded ==
    \/ pc \in {"loop", "done"}
    \/ pc = "failed" /\ raised_in \notin {"KeywordSearchIndex.from_file",
                                           "FaissIndex.from_file"}

\* C19: processing the events changes neither index: through the whole loop,
\* and when an event makes run fail, the keyword index has the projects,
\* activities and keyword sets it was loaded with (in the same order) and the
\* vector index the vectors and labels it was loaded with.
C19_QueriesKeepIndexes ==
    BothLoaded =>
        /\ index = loaded.index
        /\ context_index = loaded.context_index

\* every event was processed, the last one with a title that matched a project
C19_Witness ==
    /\ pc = "done"
    /\ done = MaxEvents
    /\ Len(project_match) > 0
    /\ Len(index.keys) >= 2
    /\ Stored = 3

\* C20: on an index without projects, search with a non-empty title does not
\* raise and returns an empty mapping.
C20_EmptyCatalogNoMatch ==
    (Searched /\ Len(pre_index.keys) = 0 /\ lastOp.title # "") =>
        /\ status = "ok"
        /\ results = EmptyDict

----------------------------------------------------------------------------
(* Ties, independence of the events *)

\* position of the cell of the row r in the keyword table of the event
KeywordRow(r) ==
    CHOOSE a \in 1..Len(search_results_df) :
        /\ search_results_df[a].project = r.project
        /\ search_results_df[a].activity = r.activity

\* the rows of the join that have the maximum fused score
BestRows ==
    {j \in 1..Len(result_df) :
        \A k \in 1..Len(result_df) :
            result_df[j].match_confidence >= result_df[k].match_confidence}

\* C21: the prediction of an event is the first of the rows of the join that
\* have the maximum fused score, and the rows of the join are in the order of
\* the rows of the keyword table.
C21_TieFirstSeen ==
    LastPredicted =>
        /\ \A a, b \in 1..Len(result_df) :
              a < b => KeywordRow(result_df[a]) <= KeywordRow(result_df[b])
        /\ \E j \in BestRows :
              /\ \A k \in BestRows : j <= k
              /\ events[done].project_description = result_df[j].project
              /\ events[done].project_activity = result_df[j].activity

\* two cells tie at the maximum
C21_Witness ==
    /\ LastPredicted
    /\ \E j, k \in BestRows :
          j < k /\ <<result_df[j].project, result_df[j].activity>>
                     # <<result_df[k].project, result_df[k].activity>>

\* the matcher's possible tables for the event e on the loaded keyword index
StandaloneMatches(e) ==
    IF e.subject = "" \/ Len(loaded.index.keys) = 0 THEN {<<>>}
    ELSE fuzzy_nn_match(WRatio, e.subject, loaded.index.keys, NNeighbors, Limit)

\* the predictions a run on the event e alone can attach to it: one per way
\* the libraries may order equal scores
StandalonePredictions(e) ==
    LET outs == {LoopBody(e, pm, found, TRUE) :
                    pm \in StandaloneMatches(e),
                    found \in search_by_vector_query(loaded.context_index,
                                 encoder[context_query(e.subject, e.body_clean)],
                                 <<>>)}
    IN  {output_record(o.result_df[idxmax(o.result_df)]) :
            o \in {x \in outs : x.error = ""}}

\* the prediction that run attached to the event at position i
PredictionOf(i) == [f \in PredictionFields |-> events[i][f]]

\* C22: the prediction attached to an event is one that a run on this event
\* alone, with the same loaded indexes, can attach to it, whatever its
\* position in the list and whatever the other events are.
C22_PerEventIndependence ==
    pc \in {"loop", "done"} =>
        \A i \in 1..done : PredictionOf(i) \in StandalonePredictions(loaded.events[i])

\* two different events, the one without a title processed after the other,
\* got different predictions
C22_Witness ==
    /\ pc = "done"
    /\ done = MaxEvents
    /\ loaded.events[1].subject # ""
    /\ loaded.events[done].subject = ""
    /\ PredictionOf(1) # PredictionOf(done)

----------------------------------------------------------------------------
(* More properties of the two indexes *)

\* C23: after set_embeddings(V, L) the stored vectors are V and the labels
\* are L, position by position, whatever the store held before.
C23_SetEmbeddingsReplaces ==
    lastOp.op = "set_embeddings" =>
        /\ context_index.vectors = lastOp.embeddings
        /\ context_index.index_items = lastOp.items

\* set_embeddings on a store that held vectors, more of them than it is given
C23_Witness ==
    /\ lastOp.op = "set_embeddings"
    /\ lastOp.stored_before > Len(lastOp.embeddings)
    /\ Len(lastOp.embeddings) > 0

\* C24: every project key and every activity key of the keyword index is a
\* non-empty string, and no keyword set contains a stopword.
C24_KeysNonEmptyNoStopwords ==
    \A c \in CellSet(index) :
        /\ c[1] # ""
        /\ c[2] # ""
        /\ Cell(index, c[1], c[2]) \cap stopwords = {}

----------------------------------------------------------------------------
(* The matcher and the pruning *)

\* the table pm is a possible answer to fuzzy_nn_match(title, clean, n, limit)
WithinBounds(pm, title, clean, n, limit) ==
    /\ Len(pm) <= limit
    /\ Len(pm) <= Min(n, Len(clean))
    /\ \A i \in 1..Len(pm) :
          /\ pm[i].messy = title
          /\ pm[i].clean \in Range(clean)
          /\ pm[i].match_confidence >= 0
          /\ pm[i].match_confidence <= Unit
    /\ \A i, j \in 1..Len(pm) :
          i < j => pm[i].match_confidence >= pm[j].match_confidence

C26_PruningIdempotent ==
    lastOp.op = "remove_frequent_keywords_from_index" =>
        /\ remove_frequent_keywords_from_index(index, lastOp.threshold) = index
        /\ repeated => index = pre_index

\* the second of two equal calls, on an index from which the first call had
\* removed the keyword of a project name and left other keywords
C26_Witness ==
    /\ lastOp.op = "remove_frequent_keywords_from_index"
    /\ repeated
    /\ \E c \in CellSet(index) :
          /\ lower(c[1]) \in Keywords
          /\ lower(c[1]) \notin Cell(index, c[1], c[2])
          /\ Cell(index, c[1], c[2]) # {}

\* C27: whatever k is, every slot that search_by_vector_query returns holds
\* the position of a stored vector and its label, and no label comes twice
\* (the labels of the store being different).
C27_LabelsAreOfStoredVectors ==
    (VectorReturned /\ Stored = Labels
     /\ \A a, b \in 1..Labels :
           a # b => context_index.index_items[a] # context_index.index_items[b]) =>
        /\ \A j \in 1..Len(vec_out.indices) :
              /\ vec_out.indices[j] \in 1..Stored
              /\ vec_out.items[j] = context_index.index_items[vec_out.indices[j]]
        /\ \A a, b \in 1..Len(vec_out.items) :
              a # b => vec_out.items[a] # vec_out.items[b]

\* C28: FaissIndex.to_dataframe recovers from every label "project: activity"
\* of the store the project and the activity it was made of, also when a name
\* contains ": ": the call does not raise, and each row it makes gives back a
\* label of the store.
C28_LabelRoundTrip ==
    /\ raised_in # "FaissIndex.to_dataframe"
    /\ \A j \in 1..Len(context_result_df) :
          \E i \in 1..Len(context_index.index_items) :
              context_index.index_items[i] =
                  Label(context_result_df[j].project, context_result_df[j].activity)

\* C29: process_recurrence terminates, whatever the interval of a weekly
\* recurrence with a non-empty daysOfWeek is: every run of it comes to its
\* end (by returning or by raising).
C29_RecurrenceTerminates == <>(rec_pc \in {"done", "failed"})

\* C29, what holds of instances when process_recurrence has returned: the
\* dates are in non-decreasing order, on the listed weekdays, not before
\* start and not after endDate.
C29_InstancesInRange ==
    (rec_pc = "done" /\ ~recurrence.is_none) =>
        /\ \A a, b \in 1..Len(instances) : a <= b => instances[a] <= instances[b]
        /\ \A a \in 1..Len(instances) :
              /\ \E j \in 1..Len(recurrence.daysOfWeek) :
                    recurrence.daysOfWeek[j] = weekday_name(instances[a])
              /\ start <= instances[a]
              /\ instances[a] <= recurrence.endDate

\* C30: SearchResults.deserialize(r.serialize()) reproduces r: each result
\* received has the project_description, project_definition,
\* activity_description, confidence, user_id, duration, subject and body of
\* the result sent at its position.
C30_RoundTripReproduces ==
    rt_pc = "received" =>
        /\ Len(received) = Len(response)
        /\ \A j \in 1..Len(received) :
              /\ received[j].project.project_description =
                     response[j].project.project_description
              /\ received[j].project.project_definition =
                     response[j].project.project_definition
              /\ received[j].project.activity_description =
                     response[j].project.activity_description
              /\ received[j].project.confidence = response[j].project.confidence
              /\ received[j].user_id = response[j].user_id
              /\ received[j].duration = response[j].duration
              /\ received[j].subject = response[j].subject
              /\ received[j].body = response[j].body

====
